---- MODULE Spec2Model ----
(***************************************************************************)
(* The versioned key-value index of reference-version/index.py.            *)
(*                                                                         *)
(* An Index is a Python defaultdict of defaultdicts of lists:              *)
(*     key -> version -> [(value, multiplicity), ...]                      *)
(* Python dictionaries enumerate in insertion order, so a dictionary is    *)
(* modelled as a sequence of [k |-> key, v |-> value] items, in insertion  *)
(* order.  Version and Antichain (module order) and Collection (module     *)
(* collection) are collaborators; they are modelled from their contract.   *)
(***************************************************************************)
EXTENDS Integers, Sequences, FiniteSets, TLC

VARIABLES
    inner,                \* inner[i]: the key -> version -> bag map of index i
    compaction_frontier,  \* compaction_frontier[i]: None or Some(antichain)
    op,                   \* the last operation: [name, self]
    result,               \* its outcome: [status, value]
    added,                \* history: the add_value calls that stored an entry
    calls                 \* history: the number of add_value and append calls

\* the indexes and the outcome of the last call
index_vars == <<inner, compaction_frontier, op, result>>
\* the history the specifications keep of the calls made
history_vars == <<added, calls>>
vars == <<inner, compaction_frontier, op, result, added, calls>>

(***************************************************************************)
(* Bounds and input sets.                                                  *)
(***************************************************************************)
\* add_value calls in the specification of one index with compaction
MaxAdds == 2
\* add_value calls in the specification of one index without compaction
MaxAddsPlain == 3
\* add_value calls, on both indexes together, in the specification of two indexes
MaxAddsPair == 3
\* append calls in the specification of two indexes
MaxAppends == 1

Indexes == {"index", "other_index"}
Keys == {"key1", "key2"}
\* two-dimensional versions: the smallest lattice with incomparable points
Versions == {<<0, 0>>, <<0, 1>>, <<1, 0>>, <<1, 1>>}
\* (value, multiplicity) entries
Entries == {<<10, 1>>, <<10, -1>>, <<20, 1>>}
\* frontiers: the one-element antichains
Frontiers == {{v} : v \in Versions}

None == <<>>
Some(x) == <<x>>

(***************************************************************************)
(* order.Version and order.Antichain, by their contract.                   *)
(***************************************************************************)
Max(a, b) == IF a >= b THEN a ELSE b

\* Version.less_equal: every coordinate of v <= the coordinate of w
Version_less_equal(v, w) == v[1] <= w[1] /\ v[2] <= w[2]

\* Version.join: least upper bound, the coordinate-wise maximum
Version_join(v, w) == <<Max(v[1], w[1]), Max(v[2], w[2])>>

\* Antichain.less_equal_version: some element of F is <= v
Antichain_less_equal_version(F, v) == \E f \in F : Version_less_equal(f, v)

\* Antichain.less_equal: every element of F is <= some element of G
Antichain_less_equal(F, G) == \A f \in F : \E g \in G : Version_less_equal(f, g)

\* Version.advance_by: the smallest version >= v that is >= some element of F
Version_advance_by(v, F) ==
    CHOOSE x \in Versions :
        /\ Version_less_equal(v, x)
        /\ Antichain_less_equal_version(F, x)
        /\ \A y \in Versions :
              (Version_less_equal(v, y) /\ Antichain_less_equal_version(F, y))
                  => Version_less_equal(x, y)

(***************************************************************************)
(* Python dict / defaultdict, as an insertion-ordered sequence of items.   *)
(***************************************************************************)
DictKeys(d) == [i \in 1..Len(d) |-> d[i].k]

DictHas(d, key) == \E i \in 1..Len(d) : d[i].k = key

DictPos(d, key) == CHOOSE i \in 1..Len(d) : d[i].k = key

\* d.get(key, default): reads, never inserts
DictGet(d, key, default) == IF DictHas(d, key) THEN d[DictPos(d, key)].v ELSE default

\* d[key] = val: an existing key keeps its position, a new key goes last
DictSet(d, key, val) ==
    IF DictHas(d, key)
    THEN [d EXCEPT ![DictPos(d, key)].v = val]
    ELSE Append(d, [k |-> key, v |-> val])

\* defaultdict.__getitem__: reading a missing key inserts the default
DictTouch(d, key, default) ==
    IF DictHas(d, key) THEN d ELSE Append(d, [k |-> key, v |-> default])

\* d.pop(key)
DictPop(d, key) == SelectSeq(d, LAMBDA it : it.k # key)

(***************************************************************************)
(* Index.__init__                                                          *)
(***************************************************************************)
Ok(value) == [status |-> "ok", value |-> value]
AssertionError == [status |-> "AssertionError", value |-> <<>>]

Init ==
    /\ inner = [i \in Indexes |-> <<>>]
    /\ compaction_frontier = [i \in Indexes |-> None]
    /\ op = [name |-> "__init__", self |-> "index"]
    /\ result = Ok(<<>>)
    /\ added = <<>>
    /\ calls = [add_value |-> 0, append |-> 0]

(***************************************************************************)
(* Index._validate: TRUE when the call passes, FALSE when it asserts.      *)
(***************************************************************************)
\* a _validate that compares the wrong way round: requested <= frontier
validate_version_reversed(self, requested_version) ==
    \/ compaction_frontier[self] = None
    \/ \E f \in compaction_frontier[self][1] : Version_less_equal(requested_version, f)

validate_version(self, requested_version) ==
    \/ compaction_frontier[self] = None
    \/ Antichain_less_equal_version(compaction_frontier[self][1], requested_version)

\* a _validate that wants a strictly greater frontier
validate_antichain_strict(self, requested_frontier) ==
    \/ compaction_frontier[self] = None
    \/ /\ Antichain_less_equal(compaction_frontier[self][1], requested_frontier)
       /\ compaction_frontier[self][1] # requested_frontier

validate_antichain(self, requested_frontier) ==
    \/ compaction_frontier[self] = None
    \/ Antichain_less_equal(compaction_frontier[self][1], requested_frontier)

(***************************************************************************)
(* Index.reconstruct_at                                                    *)
(***************************************************************************)
RECURSIVE reconstruct_loop_exact_version(_, _)
\* a reconstruct_at that reads the requested version only, not the versions below
reconstruct_loop_exact_version(versions, requested_version) ==
    IF versions = <<>> THEN <<>>
    ELSE (IF Head(versions).k = requested_version
          THEN Head(versions).v ELSE <<>>)
         \o reconstruct_loop_exact_version(Tail(versions), requested_version)

RECURSIVE reconstruct_loop(_, _)
\* the loop of lines 36-38 over the items of inner[key]
reconstruct_loop(versions, requested_version) ==
    IF versions = <<>> THEN <<>>
    ELSE (IF Version_less_equal(Head(versions).k, requested_version)
          THEN Head(versions).v ELSE <<>>)
         \o reconstruct_loop(Tail(versions), requested_version)

\* the sequence reconstruct_at returns on the map inn
reconstruct_out(inn, key, requested_version) ==
    reconstruct_loop(DictGet(inn, key, <<>>), requested_version)

Failed(self, name) ==
    /\ op' = [name |-> name, self |-> self]
    /\ result' = AssertionError
    /\ UNCHANGED <<inner, compaction_frontier>>

\* a reconstruct_at over a plain dict: self.inner[key] of a missing key raises
reconstruct_at_plain_dict(self, key, requested_version) ==
    IF ~validate_version(self, requested_version)
    THEN Failed(self, "reconstruct_at")
    ELSE /\ result' = IF DictHas(inner[self], key)
                      THEN Ok(reconstruct_out(inner[self], key, requested_version))
                      ELSE [status |-> "KeyError", value |-> <<>>]
         /\ op' = [name |-> "reconstruct_at", self |-> self]
         /\ UNCHANGED <<inner, compaction_frontier>>

reconstruct_at(self, key, requested_version) ==
    IF ~validate_version(self, requested_version)
    THEN Failed(self, "reconstruct_at")
    ELSE /\ inner' = [inner EXCEPT ![self] = DictTouch(@, key, <<>>)]
         /\ result' = Ok(reconstruct_out(inner[self], key, requested_version))
         /\ op' = [name |-> "reconstruct_at", self |-> self]
         /\ UNCHANGED compaction_frontier

(***************************************************************************)
(* Index.versions                                                          *)
(***************************************************************************)
versions_out(inn, key) == DictKeys(DictGet(inn, key, <<>>))

\* a versions over a plain dict: self.inner[key] of a missing key raises
versions_plain_dict(self, key) ==
    /\ result' = IF DictHas(inner[self], key)
                 THEN Ok(versions_out(inner[self], key))
                 ELSE [status |-> "KeyError", value |-> <<>>]
    /\ op' = [name |-> "versions", self |-> self]
    /\ UNCHANGED <<inner, compaction_frontier>>

versions(self, key) ==
    /\ inner' = [inner EXCEPT ![self] = DictTouch(@, key, <<>>)]
    /\ result' = Ok(versions_out(inner[self], key))
    /\ op' = [name |-> "versions", self |-> self]
    /\ UNCHANGED compaction_frontier

(***************************************************************************)
(* Index.add_value                                                         *)
(***************************************************************************)
\* an add_value that puts the entry first: self.inner[key][version].insert(0, value)
add_value_inner_insert_first(inn, key, version, value) ==
    LET vs == DictGet(inn, key, <<>>)
    IN  DictSet(inn, key,
                DictSet(vs, version, <<value>> \o DictGet(vs, version, <<>>)))

\* an add_value that merges: an entry equal to one of the bag is not stored again
add_value_inner_merge_equal(inn, key, version, value) ==
    LET vs == DictGet(inn, key, <<>>)
        bag == DictGet(vs, version, <<>>)
    IN  DictSet(inn, key,
                DictSet(vs, version,
                        IF \E i \in DOMAIN bag : bag[i] = value
                        THEN bag ELSE Append(bag, value)))

\* self.inner[key][version].append(value)
add_value_inner(inn, key, version, value) ==
    LET vs == DictGet(inn, key, <<>>)
    IN  DictSet(inn, key,
                DictSet(vs, version, Append(DictGet(vs, version, <<>>), value)))

\* an add_value without the call of _validate
add_value_unvalidated(self, key, version, value) ==
    /\ inner' = [inner EXCEPT ![self] = add_value_inner(@, key, version, value)]
    /\ result' = Ok(<<>>)
    /\ op' = [name |-> "add_value", self |-> self]
    /\ UNCHANGED compaction_frontier

add_value(self, key, version, value) ==
    IF ~validate_version(self, version)
    THEN Failed(self, "add_value")
    ELSE /\ inner' = [inner EXCEPT ![self] = add_value_inner(@, key, version, value)]
         /\ result' = Ok(<<>>)
         /\ op' = [name |-> "add_value", self |-> self]
         /\ UNCHANGED compaction_frontier

(***************************************************************************)
(* Index.append                                                            *)
(***************************************************************************)
\* an append that replaces the bag: self.inner[key][version] = data
extend_inner_overwrite(inn, key, version, data) ==
    LET vs == DictGet(inn, key, <<>>)
    IN  DictSet(inn, key, DictSet(vs, version, data))

\* self.inner[key][version].extend(data)
extend_inner(inn, key, version, data) ==
    LET vs == DictGet(inn, key, <<>>)
    IN  DictSet(inn, key,
                DictSet(vs, version, DictGet(vs, version, <<>>) \o data))

RECURSIVE append_versions(_, _, _)
\* the inner loop, line 50, over the items of one key of other
append_versions(inn, key, other_versions) ==
    IF other_versions = <<>> THEN inn
    ELSE append_versions(
             extend_inner(inn, key, Head(other_versions).k, Head(other_versions).v),
             key, Tail(other_versions))

RECURSIVE append_keys(_, _)
\* the outer loop, line 49, over the items of other.inner
append_keys(inn, other_items) ==
    IF other_items = <<>> THEN inn
    ELSE append_keys(
             append_versions(inn, Head(other_items).k, Head(other_items).v),
             Tail(other_items))

append(self, other) ==
    /\ inner' = [inner EXCEPT ![self] = append_keys(@, inner[other])]
    /\ result' = Ok(<<>>)
    /\ op' = [name |-> "append", self |-> self]
    /\ UNCHANGED compaction_frontier

(***************************************************************************)
(* Index.join                                                              *)
(***************************************************************************)
RECURSIVE join_data2_add_multiplicities(_, _, _, _, _, _)
\* a join that adds the multiplicities: mul1 + mul2
join_data2_add_multiplicities(collections, key, result_version, val1, mul1, data2) ==
    IF data2 = <<>> THEN collections
    ELSE LET val2 == Head(data2)[1]
             mul2 == Head(data2)[2]
             entry == <<<<key, <<val1, val2>>>>, mul1 + mul2>>
         IN  join_data2_add_multiplicities(
                 DictSet(collections, result_version,
                         Append(DictGet(collections, result_version, <<>>), entry)),
                 key, result_version, val1, mul1, Tail(data2))

RECURSIVE join_data2_ungrouped(_, _, _, _, _, _)
\* a join that collects (version, [entry]) pairs in a list, not in a dictionary
join_data2_ungrouped(collections, key, result_version, val1, mul1, data2) ==
    IF data2 = <<>> THEN collections
    ELSE LET val2 == Head(data2)[1]
             mul2 == Head(data2)[2]
             entry == <<<<key, <<val1, val2>>>>, mul1 * mul2>>
         IN  join_data2_ungrouped(
                 Append(collections, [k |-> result_version, v |-> <<entry>>]),
                 key, result_version, val1, mul1, Tail(data2))

RECURSIVE join_data2(_, _, _, _, _, _)
\* line 63-67: for (val2, mul2) in data2
join_data2(collections, key, result_version, val1, mul1, data2) ==
    IF data2 = <<>> THEN collections
    ELSE LET val2 == Head(data2)[1]
             mul2 == Head(data2)[2]
             entry == <<<<key, <<val1, val2>>>>, mul1 * mul2>>
         IN  join_data2(
                 DictSet(collections, result_version,
                         Append(DictGet(collections, result_version, <<>>), entry)),
                 key, result_version, val1, mul1, Tail(data2))

RECURSIVE join_data1(_, _, _, _, _)
\* line 62: for (val1, mul1) in data1
join_data1(collections, key, result_version, data1, data2) ==
    IF data1 = <<>> THEN collections
    ELSE join_data1(
             join_data2(collections, key, result_version,
                        Head(data1)[1], Head(data1)[2], data2),
             key, result_version, Tail(data1), data2)

RECURSIVE join_versions2(_, _, _, _, _)
\* line 61: for (version2, data2) in other_versions.items()
join_versions2(collections, key, version1, data1, other_versions) ==
    IF other_versions = <<>> THEN collections
    ELSE join_versions2(
             join_data1(collections, key,
                        Version_join(version1, Head(other_versions).k),
                        data1, Head(other_versions).v),
             key, version1, data1, Tail(other_versions))

RECURSIVE join_versions1(_, _, _, _)
\* line 60: for (version1, data1) in versions.items()
join_versions1(collections, key, self_versions, other_versions) ==
    IF self_versions = <<>> THEN collections
    ELSE join_versions1(
             join_versions2(collections, key, Head(self_versions).k,
                            Head(self_versions).v, other_versions),
             key, Tail(self_versions), other_versions)

RECURSIVE join_keys(_, _, _)
\* line 55-58: for (key, versions) in self.inner.items()
join_keys(collections, self_items, other_inner) ==
    IF self_items = <<>> THEN collections
    ELSE join_keys(
             IF ~DictHas(other_inner, Head(self_items).k)
             THEN collections
             ELSE join_versions1(collections, Head(self_items).k, Head(self_items).v,
                                 DictGet(other_inner, Head(self_items).k, <<>>)),
             Tail(self_items), other_inner)

\* lines 68-70: the (version, Collection) pairs with a non-empty list
join_out(self_inner, other_inner) ==
    LET collections == join_keys(<<>>, self_inner, other_inner)
        kept == SelectSeq(collections, LAMBDA it : it.v # <<>>)
    IN  [i \in 1..Len(kept) |-> [version |-> kept[i].k, collection |-> kept[i].v]]

RECURSIVE join_touch_keys(_, _)
\* the map after the lookups other.inner[key] of the keys, missing keys inserted
join_touch_keys(inn, keys) ==
    IF keys = <<>> THEN inn
    ELSE join_touch_keys(DictTouch(inn, Head(keys), <<>>), Tail(keys))

\* a join without the test of line 56: other.inner[key] is read for every key of
\* self, which inserts the keys other does not hold
join_without_key_test(self, other) ==
    /\ result' = Ok(join_out(inner[self], inner[other]))
    /\ op' = [name |-> "join", self |-> self]
    /\ inner' = [inner EXCEPT
                    ![other] = join_touch_keys(@, DictKeys(inner[self]))]
    /\ UNCHANGED compaction_frontier

join(self, other) ==
    /\ result' = Ok(join_out(inner[self], inner[other]))
    /\ op' = [name |-> "join", self |-> self]
    /\ UNCHANGED <<inner, compaction_frontier>>

(***************************************************************************)
(* Index.compact                                                           *)
(***************************************************************************)
RECURSIVE consolidate_sum(_, _)
\* lines 76-78: consolidated[value] += multiplicity
consolidate_sum(values, consolidated) ==
    IF values = <<>> THEN consolidated
    ELSE consolidate_sum(
             Tail(values),
             DictSet(consolidated, Head(values)[1],
                     DictGet(consolidated, Head(values)[1], 0) + Head(values)[2]))

\* a consolidate_values without the filter of line 83
consolidate_values_keep_zero(values) ==
    LET consolidated == consolidate_sum(values, <<>>)
    IN  [i \in 1..Len(consolidated) |-> <<consolidated[i].k, consolidated[i].v>>]

\* lines 75-84
consolidate_values(values) ==
    LET consolidated == consolidate_sum(values, <<>>)
        kept == SelectSeq(consolidated, LAMBDA it : it.v # 0)
    IN  [i \in 1..Len(kept) |-> <<kept[i].k, kept[i].v>>]

\* a compaction that takes every version of the key, not only those below the
\* frontier
to_compact_every_version(key_versions, frontier) ==
    DictKeys(key_versions)

\* lines 91-95: the versions of one key that are not >= the frontier
to_compact(key_versions, frontier) ==
    DictKeys(SelectSeq(key_versions,
                       LAMBDA it : ~Antichain_less_equal_version(frontier, it.k)))

RECURSIVE compact_move_overwrite(_, _, _)
\* a compaction that overwrites the bag of the advanced version:
\* versions[new_version] = values
compact_move_overwrite(key_versions, todo, frontier) ==
    IF todo = <<>> THEN key_versions
    ELSE LET values == DictGet(key_versions, Head(todo), <<>>)
             popped == DictPop(key_versions, Head(todo))
             new_version == Version_advance_by(Head(todo), frontier)
         IN  compact_move_overwrite(
                 DictSet(popped, new_version, values), Tail(todo), frontier)

RECURSIVE compact_move_not_advanced(_, _, _)
\* a compaction that puts the entries back at their own version:
\* new_version = version
compact_move_not_advanced(key_versions, todo, frontier) ==
    IF todo = <<>> THEN key_versions
    ELSE LET values == DictGet(key_versions, Head(todo), <<>>)
             popped == DictPop(key_versions, Head(todo))
             new_version == Head(todo)
         IN  compact_move_not_advanced(
                 DictSet(popped, new_version,
                         DictGet(popped, new_version, <<>>) \o values),
                 Tail(todo), frontier)

RECURSIVE compact_move(_, _, _)
\* lines 97-100: pop each version and extend the bag of its advanced version
compact_move(key_versions, todo, frontier) ==
    IF todo = <<>> THEN key_versions
    ELSE LET values == DictGet(key_versions, Head(todo), <<>>)
             popped == DictPop(key_versions, Head(todo))
             new_version == Version_advance_by(Head(todo), frontier)
         IN  compact_move(
                 DictSet(popped, new_version,
                         DictGet(popped, new_version, <<>>) \o values),
                 Tail(todo), frontier)

RECURSIVE compact_consolidate(_, _)
\* lines 102-104: pop each version that received entries, store it consolidated
compact_consolidate(key_versions, todo) ==
    IF todo = <<>> THEN key_versions
    ELSE LET values == DictGet(key_versions, Head(todo), <<>>)
             popped == DictPop(key_versions, Head(todo))
         IN  compact_consolidate(
                 DictSet(popped, Head(todo), consolidate_values(values)),
                 Tail(todo))

\* the enumerations of a set: a Python set iterates in an order the hashes fix
SetOrders(S) ==
    {s \in [1..Cardinality(S) -> S] : \A i, j \in 1..Cardinality(S) : s[i] = s[j] => i = j}

\* the versions a compaction to frontier can create
AdvancedVersions(frontier) ==
    {Version_advance_by(v, frontier) :
        v \in {w \in Versions : ~Antichain_less_equal_version(frontier, w)}}

\* lines 90-104, the body of the loop for one key; set_order is the order in
\* which the set to_consolidate enumerates
compact_key(key_versions, frontier, set_order) ==
    LET todo == to_compact(key_versions, frontier)
        moved == compact_move(key_versions, todo, frontier)
        to_consolidate ==
            {Version_advance_by(todo[i], frontier) : i \in 1..Len(todo)}
    IN  compact_consolidate(
            moved, SelectSeq(set_order, LAMBDA v : v \in to_consolidate))

RECURSIVE compact_keys(_, _, _, _)
\* line 89: for key in keys
compact_keys(inn, keys, frontier, set_order) ==
    IF keys = <<>> THEN inn
    ELSE LET touched == DictTouch(inn, Head(keys), <<>>)
         IN  compact_keys(
                 DictSet(touched, Head(keys),
                         compact_key(DictGet(touched, Head(keys), <<>>),
                                     frontier, set_order)),
                 Tail(keys), frontier, set_order)

\* lines 86-104: the map after the loops
compact_inner(inn, frontier, keys, set_order) ==
    compact_keys(inn, IF keys = <<>> THEN DictKeys(inn) ELSE keys,
                 frontier, set_order)

\* a compact without the checks of lines 73 and 105
compact_unchecked(self, frontier, keys) ==
    \E set_order \in SetOrders(AdvancedVersions(frontier)) :
        /\ inner' = [inner EXCEPT
                        ![self] = compact_inner(@, frontier, keys, set_order)]
        /\ op' = [name |-> "compact", self |-> self]
        /\ compaction_frontier' =
              [compaction_frontier EXCEPT ![self] = Some(frontier)]
        /\ result' = Ok(<<>>)

\* a compact without the validation of line 73: the frontier is checked by the
\* assertion of line 105 only, after the loops
compact_validate_last(self, frontier, keys) ==
    \E set_order \in SetOrders(AdvancedVersions(frontier)) :
        /\ inner' = [inner EXCEPT
                        ![self] = compact_inner(@, frontier, keys, set_order)]
        /\ op' = [name |-> "compact", self |-> self]
        /\ IF \/ compaction_frontier[self] = None
              \/ Antichain_less_equal(compaction_frontier[self][1], frontier)
           THEN /\ compaction_frontier' =
                      [compaction_frontier EXCEPT ![self] = Some(frontier)]
                /\ result' = Ok(<<>>)
           ELSE /\ result' = AssertionError
                /\ UNCHANGED compaction_frontier

compact(self, frontier, keys) ==
    IF ~validate_antichain(self, frontier)
    THEN Failed(self, "compact")
    ELSE \E set_order \in SetOrders(AdvancedVersions(frontier)) :
            /\ inner' = [inner EXCEPT
                            ![self] = compact_inner(@, frontier, keys, set_order)]
            /\ op' = [name |-> "compact", self |-> self]
            /\ IF \/ compaction_frontier[self] = None
                  \/ Antichain_less_equal(compaction_frontier[self][1], frontier)
               THEN /\ compaction_frontier' =
                          [compaction_frontier EXCEPT ![self] = Some(frontier)]
                    /\ result' = Ok(<<>>)
               ELSE /\ result' = AssertionError
                    /\ UNCHANGED compaction_frontier

(***************************************************************************)
(* Specifications.                                                         *)
(***************************************************************************)
\* the key lists compact is called with; [] selects every key
KeyLists == {<<>>, <<"key1">>, <<"key2">>}

\* the history of a call to add_value: the call is recorded when it stored
RecordAdd(key, version, value) ==
    /\ added' = IF result'.status = "ok"
                THEN Append(added, <<key, version, value>>) ELSE added
    /\ calls' = [calls EXCEPT !.add_value = @ + 1]

AddValue ==
    /\ calls.add_value < MaxAdds
    /\ \E key \in Keys, version \in Versions, value \in Entries :
          /\ add_value("index", key, version, value)
          /\ RecordAdd(key, version, value)

ReconstructAt ==
    /\ \E key \in Keys, version \in Versions : reconstruct_at("index", key, version)
    /\ UNCHANGED history_vars

VersionsOf ==
    /\ \E key \in Keys : versions("index", key)
    /\ UNCHANGED history_vars

Compact ==
    /\ \E frontier \in Frontiers, keys \in KeyLists : compact("index", frontier, keys)
    /\ UNCHANGED history_vars

\* one index: writes, queries and compaction
Next == AddValue \/ ReconstructAt \/ VersionsOf \/ Compact

Spec == Init /\ [][Next]_vars

\* one index: writes and compaction, no queries
NextCompact == AddValue \/ Compact

SpecCompact == Init /\ [][NextCompact]_vars

AddValuePlain ==
    /\ calls.add_value < MaxAddsPlain
    /\ \E key \in Keys, version \in Versions, value \in Entries :
          /\ add_value("index", key, version, value)
          /\ RecordAdd(key, version, value)

\* one index, never compacted: writes and queries
NextPlain == AddValuePlain \/ ReconstructAt \/ VersionsOf

SpecPlain == Init /\ [][NextPlain]_vars

\* the inputs of the two indexes in the specification of two indexes
PairKeys(self) == IF self = "index" THEN Keys ELSE {"key1"}

PairVersions(self) ==
    IF self = "index" THEN {<<0, 1>>, <<1, 1>>} ELSE {<<0, 1>>, <<1, 0>>}

PairEntries(self) ==
    IF self = "index" THEN {<<10, 1>>, <<10, -1>>} ELSE {<<10, -1>>, <<20, 1>>}

AddValuePair ==
    /\ calls.add_value < MaxAddsPair
    /\ \E self \in Indexes :
          \E key \in PairKeys(self), version \in PairVersions(self),
             value \in PairEntries(self) :
              add_value(self, key, version, value)
    /\ calls' = [calls EXCEPT !.add_value = @ + 1]
    /\ UNCHANGED added

\* a query of a key the other index never writes: it leaves the key there with
\* no version
VersionsPair ==
    /\ versions("other_index", "key2")
    /\ UNCHANGED history_vars

\* compaction of every key to the top version: entries that cancel leave an
\* empty bag
CompactPair ==
    /\ \E self \in Indexes : compact(self, {<<1, 1>>}, <<>>)
    /\ UNCHANGED history_vars

AppendPair ==
    /\ calls.append < MaxAppends
    /\ append("index", "other_index")
    /\ calls' = [calls EXCEPT !.append = @ + 1]
    /\ UNCHANGED added

JoinPair ==
    /\ join("index", "other_index")
    /\ UNCHANGED history_vars

\* two indexes: writes, queries and compaction of each, then append and join
NextPair == AddValuePair \/ VersionsPair \/ CompactPair \/ AppendPair \/ JoinPair

SpecPair == Init /\ [][NextPair]_vars

\* reconstruct_at on the index that is appended and joined to the other, for the
\* key it holds and for the key it never writes, at every version
ReconstructPair ==
    /\ \E key \in Keys, version \in Versions :
          reconstruct_at("other_index", key, version)
    /\ UNCHANGED history_vars

\* two indexes: every operation of the class
NextOps ==
    \/ AddValuePair
    \/ VersionsPair
    \/ ReconstructPair
    \/ CompactPair
    \/ AppendPair
    \/ JoinPair

SpecOps == Init /\ [][NextOps]_vars

(***************************************************************************)
(* Properties.                                                             *)
(***************************************************************************)
\* the number of times x occurs in a sequence
Count(seq, x) == Cardinality({i \in DOMAIN seq : seq[i] = x})

\* the entries of a sequence of add_value calls <<key, version, value>>
ValuesOf(adds) == [i \in DOMAIN adds |-> adds[i][3]]

\* the add_value calls made under key at a version <= version, in call order
AddedUpTo(key, version) ==
    SelectSeq(added, LAMBDA a : a[1] = key /\ Version_less_equal(a[2], version))

\* the add_value calls made under key at exactly version, in call order
AddedAt(key, version) ==
    SelectSeq(added, LAMBDA a : a[1] = key /\ a[2] = version)

\* C1: with add_value calls only (no compact), reconstruct_at(k, v) returns
\* exactly the bag of the entries added under k at a version <= v: each once per
\* add_value call, none from another key or from a version not <= v, equal
\* entries neither summed nor cancelled.
C1_ReconstructIsBagOfAdded ==
    \A key \in Keys, version \in Versions :
        LET out == reconstruct_out(inner["index"], key, version)
        IN  /\ Len(out) = Len(AddedUpTo(key, version))
            /\ \A e \in Entries :
                  Count(out, e) = Count(ValuesOf(AddedUpTo(key, version)), e)

\* a reconstruct_at that returned the same entry twice, unsummed, and left out
\* the third entry added
C1_Witness ==
    /\ op.name = "reconstruct_at"
    /\ Len(added) = 3
    /\ Len(result.value) = 2
    /\ result.value[1] = result.value[2]

\* C9 as claimed: reconstruct_at(k, v) lists the entries added under k at
\* versions <= v in the order of the add_value calls.
C9_InsertionOrder ==
    \A key \in Keys, version \in Versions :
        reconstruct_out(inner["index"], key, version)
            = ValuesOf(AddedUpTo(key, version))

RECURSIVE FirstOccurrences(_, _)
\* the distinct elements of s[1..n], in the order of their first occurrence
FirstOccurrences(s, n) ==
    IF n = 0 THEN <<>>
    ELSE IF \E j \in 1..(n - 1) : s[j] = s[n]
         THEN FirstOccurrences(s, n - 1)
         ELSE Append(FirstOccurrences(s, n - 1), s[n])

\* the versions written under key, in the order of their first add_value call
VersionsInFirstAddOrder(key) ==
    LET calls_of_key == SelectSeq(added, LAMBDA a : a[1] = key)
        versions_written == [i \in DOMAIN calls_of_key |-> calls_of_key[i][2]]
    IN  FirstOccurrences(versions_written, Len(versions_written))

RECURSIVE GroupedByVersion(_, _, _)
\* for each version of vs that is <= version, in the order of vs, the entries
\* added under key at that version in call order
GroupedByVersion(key, vs, version) ==
    IF vs = <<>> THEN <<>>
    ELSE (IF Version_less_equal(Head(vs), version)
          THEN ValuesOf(AddedAt(key, Head(vs))) ELSE <<>>)
         \o GroupedByVersion(key, Tail(vs), version)

\* C9 as amended: reconstruct_at(k, v) lists the entries added under k at
\* versions <= v grouped by version, the versions in the order of their first
\* add_value call, the entries of one version in the order of the add_value calls.
C9_GroupedByVersionInInsertionOrder ==
    \A key \in Keys, version \in Versions :
        reconstruct_out(inner["index"], key, version)
            = GroupedByVersion(key, VersionsInFirstAddOrder(key), version)

\* a reconstruct_at whose result is not in call order: the calls alternated
\* between two versions of the key
C9_Witness ==
    /\ op.name = "reconstruct_at"
    /\ Len(result.value) = 3
    /\ \E key \in Keys :
          /\ Len(SelectSeq(added, LAMBDA a : a[1] = key)) = 3
          /\ added[1][2] = added[3][2]
          /\ added[1][2] # added[2][2]
          /\ result.value # ValuesOf(added)
          /\ result.value = <<added[1][3], added[3][3], added[2][3]>>

\* the values of the entries
Values == {e[1] : e \in Entries}

RECURSIVE NetMultiplicity(_, _)
\* the sum of the multiplicities of value in a bag
NetMultiplicity(bag, value) ==
    IF bag = <<>> THEN 0
    ELSE (IF Head(bag)[1] = value THEN Head(bag)[2] ELSE 0)
         + NetMultiplicity(Tail(bag), value)

RECURSIVE AddAll(_, _)
\* the map of an index that received the add_value calls adds, in order
AddAll(inn, adds) ==
    IF adds = <<>> THEN inn
    ELSE AddAll(add_value_inner(inn, Head(adds)[1], Head(adds)[2], Head(adds)[3]),
                Tail(adds))

\* the reference index: the same add_value calls, never compacted
ReferenceInner == AddAll(<<>>, added)

\* C2: after any add_value and compact calls, for every key k and every version
\* v that passes the frontier validation, each value has the same net
\* multiplicity in reconstruct_at(k, v) as in the reconstruct_at(k, v) of a
\* reference index that received the same add_value calls and was never compacted.
C2_CompactionPreservesValidQueries ==
    \A key \in Keys, version \in Versions :
        validate_version("index", version) =>
            \A value \in Values :
                NetMultiplicity(reconstruct_out(inner["index"], key, version), value)
                    = NetMultiplicity(reconstruct_out(ReferenceInner, key, version),
                                      value)

\* a validated reconstruct_at on a compacted index that returned the sum of two
\* entries the reference index still holds apart
C2_Witness ==
    /\ op.name = "reconstruct_at"
    /\ result.status = "ok"
    /\ compaction_frontier["index"] # None
    /\ result.value = <<<<10, 2>>>>
    /\ \E key \in Keys, version \in Versions :
          /\ validate_version("index", version)
          /\ reconstruct_out(ReferenceInner, key, version) = <<<<10, 1>>, <<10, 1>>>>
          /\ reconstruct_out(inner["index"], key, version) = <<<<10, 2>>>>

\* version is below the frontier installed in the index
Stale(version) ==
    /\ compaction_frontier["index"] # None
    /\ ~Antichain_less_equal_version(compaction_frontier["index"][1], version)

\* C3: once a frontier F is installed, every reconstruct_at(k, v) and every
\* add_value(k, v, e) with v not >= F fails with an assertion error, for every
\* key, and returns nothing and stores nothing.
C3_StaleAccessFails ==
    [][\A key \in Keys, version \in Versions :
          Stale(version) =>
              /\ (op'.name = "reconstruct_at" /\ reconstruct_at("index", key, version))
                    => (result' = AssertionError /\ inner' = inner)
              /\ \A value \in Entries :
                    (op'.name = "add_value" /\ add_value("index", key, version, value))
                        => (result' = AssertionError /\ inner' = inner)]_vars

\* an add_value that failed on an index that holds entries and a frontier
C3_Witness ==
    /\ op.name = "add_value"
    /\ result = AssertionError
    /\ compaction_frontier["index"] # None
    /\ inner["index"] # <<>>

\* C4: the installed frontier only advances: a compact(F2) issued while a
\* frontier F1 with F1 not <= F2 is installed fails and installs nothing, and
\* every frontier that becomes installed is >= the one installed before it.
C4_FrontierOnlyAdvances ==
    [][/\ \A frontier \in Frontiers, keys \in KeyLists :
             (/\ op'.name = "compact"
              /\ compaction_frontier["index"] # None
              /\ ~Antichain_less_equal(compaction_frontier["index"][1], frontier)
              /\ compact("index", frontier, keys))
                 => (/\ result' = AssertionError
                     /\ compaction_frontier' = compaction_frontier)
       /\ (/\ compaction_frontier["index"] # None
           /\ compaction_frontier'["index"] # compaction_frontier["index"])
              => (/\ compaction_frontier'["index"] # None
                  /\ Antichain_less_equal(compaction_frontier["index"][1],
                                          compaction_frontier'["index"][1]))]_vars

\* a compact that was rejected: its frontier is not >= the installed one
C4_Witness ==
    /\ op.name = "compact"
    /\ result = AssertionError
    /\ compaction_frontier["index"] # None

\* the keys compact(frontier, keys) selects in the map inn
SelectedKeys(inn, keys) ==
    IF keys = <<>> THEN {inn[i].k : i \in 1..Len(inn)}
    ELSE {keys[i] : i \in 1..Len(keys)}

\* the versions of a version -> bag map that compaction to frontier moves
MovedVersions(key_versions, frontier) ==
    {key_versions[i].k : i \in 1..Len(key_versions)}
        \ {v \in Versions : Antichain_less_equal_version(frontier, v)}

RECURSIVE NetMultiplicityInto(_, _, _, _)
\* the net multiplicity of value over the bags of key_versions that are at
\* new_version or that compaction to frontier moves into new_version
NetMultiplicityInto(key_versions, new_version, frontier, value) ==
    IF key_versions = <<>> THEN 0
    ELSE (IF \/ Head(key_versions).k = new_version
             \/ /\ ~Antichain_less_equal_version(frontier, Head(key_versions).k)
                /\ Version_advance_by(Head(key_versions).k, frontier) = new_version
          THEN NetMultiplicity(Head(key_versions).v, value) ELSE 0)
         + NetMultiplicityInto(Tail(key_versions), new_version, frontier, value)

\* C5: after compact(F), for every selected key and every version that received
\* entries moved from a compacted version, the bag at that version holds each
\* value at most once, with the sum of the multiplicities of the entries for
\* that value that were at that version or were moved into it, and holds no
\* value whose net multiplicity is zero.
C5_CompactConsolidates ==
    [][\A frontier \in Frontiers, keys \in KeyLists :
          (/\ op'.name = "compact"
           /\ result'.status = "ok"
           /\ compaction_frontier'["index"] = Some(frontier)
           /\ compact("index", frontier, keys)) =>
              \A key \in SelectedKeys(inner["index"], keys) :
                  LET before == DictGet(inner["index"], key, <<>>)
                      after == DictGet(inner'["index"], key, <<>>)
                  IN  \A version \in MovedVersions(before, frontier) :
                          LET new_version == Version_advance_by(version, frontier)
                              bag == DictGet(after, new_version, <<>>)
                          IN  /\ DictHas(after, new_version)
                              /\ \A i, j \in 1..Len(bag) :
                                    bag[i][1] = bag[j][1] => i = j
                              /\ \A i \in 1..Len(bag) : bag[i][2] # 0
                              /\ \A value \in Values :
                                    NetMultiplicity(bag, value)
                                        = NetMultiplicityInto(before, new_version,
                                                              frontier, value)]_vars

\* a compact that summed two entries of one value into one entry
C5_Witness ==
    /\ op.name = "compact"
    /\ result.status = "ok"
    /\ Len(added) = 2
    /\ added[1][2] # added[2][2]
    /\ \E key \in Keys, version \in Versions :
          DictGet(DictGet(inner["index"], key, <<>>), version, <<>>) = <<<<10, 2>>>>

\* C10 as claimed: a call to reconstruct_at(k, v) or versions(k), for a known or
\* an unknown key, leaves the key -> version -> bag map, its set of keys
\* included, and the compaction frontier unchanged.
C10_QueriesAreReadOnly ==
    [][\A key \in Keys :
          /\ versions("index", key)
                => (inner' = inner /\ compaction_frontier' = compaction_frontier)
          /\ \A version \in Versions :
                reconstruct_at("index", key, version)
                    => (inner' = inner /\ compaction_frontier' = compaction_frontier)
      ]_vars

\* the (version position, entry position) pairs of a version -> bag map
Positions(key_versions) ==
    UNION {{<<a, b>> : b \in DOMAIN key_versions[a].v} : a \in DOMAIN key_versions}

\* the entries a key -> version -> bag map holds
EntriesIn(inn) ==
    UNION {UNION {{inn[a].v[b].v[c] : c \in DOMAIN inn[a].v[b].v}
                  : b \in DOMAIN inn[a].v}
           : a \in DOMAIN inn}

\* the join entry of key and of the entries e1 and e2
JoinEntry(key, e1, e2) == <<<<key, <<e1[1], e2[1]>>>>, e1[2] * e2[2]>>

\* the number of combinations of an entry stored in x under (key, version1) and
\* an entry stored in y under (key, version2), with version1.join(version2) =
\* result_version, whose join entry is r
Combinations(x, y, result_version, r) ==
    LET key == r[1][1]
        xs == DictGet(x, key, <<>>)
        ys == DictGet(y, key, <<>>)
    IN  Cardinality(
            {pq \in Positions(xs) \X Positions(ys) :
                /\ Version_join(xs[pq[1][1]].k, ys[pq[2][1]].k) = result_version
                /\ JoinEntry(key, xs[pq[1][1]].v[pq[1][2]], ys[pq[2][1]].v[pq[2][2]])
                       = r})

\* the number of times r occurs in the collections join returned for
\* result_version
Occurrences(out, result_version, r) ==
    Cardinality(
        UNION {{<<i, j>> : j \in {n \in DOMAIN out[i].collection :
                                      out[i].collection[n] = r}}
               : i \in {n \in DOMAIN out : out[n].version = result_version}})

\* C6: the entries of X.join(Y), over all the returned (version, collection)
\* pairs, are exactly one entry ((k, (val1, val2)), mul1 * mul2), in the
\* collection of version1.join(version2), per combination of a key k of both
\* indexes, an entry (val1, mul1) of X under (k, version1) and an entry
\* (val2, mul2) of Y under (k, version2); a key of one index only gives no entry.
C6_JoinIsCrossProduct ==
    op.name = "join" =>
        LET x == inner["index"]
            y == inner["other_index"]
            out == result.value
            returned == UNION {{out[i].collection[j] : j \in DOMAIN out[i].collection}
                               : i \in DOMAIN out}
            expected == {JoinEntry(key, e1, e2) :
                            key \in Keys, e1 \in EntriesIn(x), e2 \in EntriesIn(y)}
        IN  /\ \A i \in DOMAIN out : out[i].version \in Versions
            /\ \A result_version \in Versions, r \in returned \cup expected :
                  Occurrences(out, result_version, r)
                      = Combinations(x, y, result_version, r)

\* a join that returned entries at two versions, from indexes that share one
\* key and hold another key in one index only
C6_Witness ==
    /\ op.name = "join"
    /\ Len(result.value) = 2
    /\ \E key \in Keys :
          /\ DictGet(inner["index"], key, <<>>) # <<>>
          /\ ~DictHas(inner["other_index"], key)

\* C7: in the sequence join returns, every version appears in at most one
\* (version, collection) pair and no collection is empty.
C7_JoinVersionsUniqueNonEmpty ==
    op.name = "join" =>
        LET out == result.value
        IN  /\ \A i, j \in DOMAIN out : out[i].version = out[j].version => i = j
            /\ \A i \in DOMAIN out : out[i].collection # <<>>

\* a join that returned entries, from an index that holds a version with an
\* empty bag
C7_Witness ==
    /\ op.name = "join"
    /\ result.value # <<>>
    /\ \E a \in DOMAIN inner["index"] :
          \E b \in DOMAIN inner["index"][a].v : inner["index"][a].v[b].v = <<>>

\* both reconstruct_at(k, version) calls pass the validation
BothValid(version) ==
    validate_version("index", version) /\ validate_version("other_index", version)

\* C8 as claimed: A.reconstruct_at(k, v) after A.append(B) equals
\* A.reconstruct_at(k, v) followed by B.reconstruct_at(k, v), both evaluated
\* before the append.
C8_AppendIsConcatenation ==
    [][(op'.name = "append" /\ append("index", "other_index")) =>
          \A key \in Keys, version \in Versions :
              BothValid(version) =>
                  reconstruct_out(inner'["index"], key, version)
                      = reconstruct_out(inner["index"], key, version)
                        \o reconstruct_out(inner["other_index"], key, version)]_vars

\* the bag a key -> version -> bag map holds for (key, version)
BagAt(inn, key, version) == DictGet(DictGet(inn, key, <<>>), version, <<>>)

\* C8 as amended: A.reconstruct_at(k, v) after A.append(B) holds the entries of
\* A.reconstruct_at(k, v) followed by B.reconstruct_at(k, v) the same number of
\* times, grouped by version: the entries of each version v' <= v are A's
\* entries at v' followed by B's entries at v', in their order.
C8_AppendIsConcatenationPerVersion ==
    [][(op'.name = "append" /\ append("index", "other_index")) =>
          \A key \in Keys, version \in Versions :
              BothValid(version) =>
                  LET before == reconstruct_out(inner["index"], key, version)
                                  \o reconstruct_out(inner["other_index"], key, version)
                      after == reconstruct_out(inner'["index"], key, version)
                  IN  /\ Len(after) = Len(before)
                      /\ \A i \in DOMAIN before :
                            Count(after, before[i]) = Count(before, before[i])
                      /\ \A below \in Versions :
                            Version_less_equal(below, version) =>
                                BagAt(inner'["index"], key, below)
                                    = BagAt(inner["index"], key, below)
                                      \o BagAt(inner["other_index"], key, below)]_vars

\* an append after which reconstruct_at returns the entry of the other index
\* between two entries the index held at two versions
C8_Witness ==
    /\ op.name = "append"
    /\ calls.add_value = 3
    /\ \E key \in Keys, version \in Versions :
          /\ BothValid(version)
          /\ reconstruct_out(inner["other_index"], key, version) = <<<<20, 1>>>>
          /\ Len(reconstruct_out(inner["index"], key, version)) = 3
          /\ reconstruct_out(inner["index"], key, version)[2] = <<20, 1>>

\* no add_value call stored an entry under key
NeverWritten(key) == \A i \in DOMAIN added : added[i][1] # key

\* C11 as claimed: in every reachable state, reconstruct_at(k, v) and versions(k)
\* on a key that was never written return the empty sequence and never fail,
\* whatever the version.
C11_NeverWrittenKeyNeverFails ==
    [][\A key \in Keys :
          NeverWritten(key) =>
              /\ (op'.name = "versions" /\ versions("index", key))
                    => result' = Ok(<<>>)
              /\ \A version \in Versions :
                    (op'.name = "reconstruct_at" /\ reconstruct_at("index", key, version))
                        => result' = Ok(<<>>)]_vars

\* C11 as amended: versions(k) on a never-written key returns the empty
\* sequence and never fails; reconstruct_at(k, v) on a never-written key returns
\* the empty sequence when v passes the frontier validation, and fails with the
\* assertion error when v is below the installed frontier.
C11_NeverWrittenKeyIsEmpty ==
    [][\A key \in Keys :
          NeverWritten(key) =>
              /\ (op'.name = "versions" /\ versions("index", key))
                    => result' = Ok(<<>>)
              /\ \A version \in Versions :
                    (op'.name = "reconstruct_at" /\ reconstruct_at("index", key, version))
                        => result' = IF validate_version("index", version)
                                     THEN Ok(<<>>) ELSE AssertionError]_vars

\* a reconstruct_at that returned the empty sequence for a key that is not in
\* the map, on an index that holds a frontier and entries under the other key at
\* the bottom version advanced to the frontier
C11_Witness ==
    /\ op.name = "reconstruct_at"
    /\ result = Ok(<<>>)
    /\ compaction_frontier["index"] # None
    /\ Len(added) = 2
    /\ \E key \in Keys :
          /\ NeverWritten(key)
          /\ Len(inner["index"]) = 2
          /\ DictGet(inner["index"], key, <<0>>) = <<>>
          /\ \A other \in Keys \ {key}, version \in Versions :
                validate_version("index", version)
                    => reconstruct_out(inner["index"], other, version) # <<>>

\* C12: add_value and append never merge or cancel entries.  A successful
\* add_value(k, v, e) changes only the bag at (k, v), which becomes the old bag
\* with e appended at the end; A.append(B) changes only the bags of A at the
\* (key, version) pairs of B, each becoming A's old bag followed by B's bag in
\* B's order; every other bag of A, the compaction frontiers and the whole of
\* the other index are left unchanged.
C12_WritesOnlyExtendTheirBag ==
    [][/\ \A self \in Indexes, key \in Keys, version \in Versions, value \in Entries :
             (/\ op'.name = "add_value"
              /\ result'.status = "ok"
              /\ add_value(self, key, version, value)) =>
                 /\ BagAt(inner'[self], key, version)
                        = Append(BagAt(inner[self], key, version), value)
                 /\ \A k \in Keys, v \in Versions :
                       <<k, v>> # <<key, version>>
                           => BagAt(inner'[self], k, v) = BagAt(inner[self], k, v)
                 /\ \A other \in Indexes \ {self} : inner'[other] = inner[other]
                 /\ compaction_frontier' = compaction_frontier
       /\ (op'.name = "append" /\ append("index", "other_index")) =>
             /\ \A k \in Keys, v \in Versions :
                   BagAt(inner'["index"], k, v)
                       = BagAt(inner["index"], k, v) \o BagAt(inner["other_index"], k, v)
             /\ inner'["other_index"] = inner["other_index"]
             /\ compaction_frontier' = compaction_frontier]_vars

\* an append that left in one bag two entries that cancel, stored by two
\* add_value calls, followed by the equal entry of the other index
C12_Witness ==
    /\ op.name = "append"
    /\ BagAt(inner["other_index"], "key1", <<0, 1>>) = <<<<10, -1>>>>
    /\ BagAt(inner["index"], "key1", <<0, 1>>) = <<<<10, 1>>, <<10, -1>>, <<10, -1>>>>

\* the index is in the state a successful compact(frontier) left
RightAfterCompact(frontier) ==
    /\ op.name = "compact"
    /\ result.status = "ok"
    /\ compaction_frontier["index"] = Some(frontier)

\* the versions recorded under key
RecordedVersions(inn, key) ==
    LET key_versions == DictGet(inn, key, <<>>)
    IN  {key_versions[i].k : i \in DOMAIN key_versions}

\* C13 as claimed: right after a compact(F), a second compact(F) succeeds and
\* leaves the bag of every recorded version that is >= F, for every key,
\* exactly as it was.
C13_RecompactLeavesBags ==
    [][\A frontier \in Frontiers, keys \in KeyLists :
          (/\ op'.name = "compact"
           /\ RightAfterCompact(frontier)
           /\ compact("index", frontier, keys)) =>
              /\ result'.status = "ok"
              /\ \A key \in Keys :
                    \A version \in RecordedVersions(inner["index"], key) :
                        Antichain_less_equal_version(frontier, version)
                            => BagAt(inner'["index"], key, version)
                                   = BagAt(inner["index"], key, version)]_vars

\* C13 as amended: right after a compact(F), a second compact(F) succeeds and
\* leaves the versions and the bags of every key that holds no version below F,
\* which is every key the first compact(F) selected, exactly as they were.
C13_RecompactLeavesCompactedKeys ==
    [][\A frontier \in Frontiers, keys \in KeyLists :
          (/\ op'.name = "compact"
           /\ RightAfterCompact(frontier)
           /\ compact("index", frontier, keys)) =>
              /\ result'.status = "ok"
              /\ compaction_frontier' = compaction_frontier
              /\ \A key \in Keys :
                    (\A version \in RecordedVersions(inner["index"], key) :
                        Antichain_less_equal_version(frontier, version))
                        => DictGet(inner'["index"], key, <<>>)
                               = DictGet(inner["index"], key, <<>>)]_vars

\* the state a compact(F) left, from which compact(F) is issued again: the
\* key holds the sum of its two entries at a version >= F and no version below F
C13_Witness ==
    \E frontier \in Frontiers, key \in Keys, version \in Versions :
        /\ RightAfterCompact(frontier)
        /\ Len(added) = 2
        /\ added[1][2] # added[2][2]
        /\ BagAt(inner["index"], key, version) = <<<<10, 2>>>>
        /\ RecordedVersions(inner["index"], key) = {version}
        /\ Antichain_less_equal_version(frontier, version)

\* the versions that the versions compaction to frontier moves advance to
ReceivingVersions(key_versions, frontier) ==
    {Version_advance_by(version, frontier) :
        version \in MovedVersions(key_versions, frontier)}

\* C14 as claimed: compact(F) leaves every version that is already >= F
\* untouched: for every selected key and every version recorded before the call
\* that is >= F, the version is still recorded after the call and its bag is the
\* same as before the call.
C14_KeptVersionsUntouched ==
    [][\A frontier \in Frontiers, keys \in KeyLists :
          (/\ op'.name = "compact"
           /\ result'.status = "ok"
           /\ compaction_frontier'["index"] = Some(frontier)
           /\ compact("index", frontier, keys)) =>
              \A key \in SelectedKeys(inner["index"], keys) :
                  \A version \in RecordedVersions(inner["index"], key) :
                      Antichain_less_equal_version(frontier, version) =>
                          /\ version \in RecordedVersions(inner'["index"], key)
                          /\ BagAt(inner'["index"], key, version)
                                 = BagAt(inner["index"], key, version)]_vars

\* C14 as amended: for every selected key and every version recorded before
\* the call that is >= F, the version is still recorded after the call, and its
\* bag is the same as before the call unless a compacted version of the key
\* advances to it.
C14_KeptVersionsUntouchedUnlessMergedInto ==
    [][\A frontier \in Frontiers, keys \in KeyLists :
          (/\ op'.name = "compact"
           /\ result'.status = "ok"
           /\ compaction_frontier'["index"] = Some(frontier)
           /\ compact("index", frontier, keys)) =>
              \A key \in SelectedKeys(inner["index"], keys) :
                  \A version \in RecordedVersions(inner["index"], key) :
                      Antichain_less_equal_version(frontier, version) =>
                          /\ version \in RecordedVersions(inner'["index"], key)
                          /\ version \notin ReceivingVersions(
                                                DictGet(inner["index"], key, <<>>),
                                                frontier)
                                => BagAt(inner'["index"], key, version)
                                       = BagAt(inner["index"], key, version)]_vars

\* a compact of the only key of the index that moved one of its two versions
\* and kept the other, which was >= F and received nothing
C14_Witness ==
    \E frontier \in Frontiers :
        /\ RightAfterCompact(frontier)
        /\ Len(inner["index"]) = 1
        /\ Len(added) = 2
        /\ added[1][1] = added[2][1]
        /\ ~Antichain_less_equal_version(frontier, added[1][2])
        /\ Antichain_less_equal_version(frontier, added[2][2])
        /\ Version_advance_by(added[1][2], frontier) # added[2][2]
        /\ BagAt(inner["index"], added[1][1], added[2][2]) = <<added[2][3]>>
        /\ BagAt(inner["index"], added[1][1], Version_advance_by(added[1][2], frontier))
               = <<added[1][3]>>

\* C15: after compact(F, keys) completes, no version below the frontier
\* survives for a selected key: every version recorded for a selected key is
\* >= F, the recorded versions are the versions that were >= F and the advanced
\* versions of the removed ones, and the entries of every removed version count
\* only at its advanced version: at every version the net multiplicity of each
\* value is that of the entries that were there or advanced to it.
C15_NoVersionBelowFrontierSurvives ==
    [][\A frontier \in Frontiers, keys \in KeyLists :
          (/\ op'.name = "compact"
           /\ result'.status = "ok"
           /\ compaction_frontier'["index"] = Some(frontier)
           /\ compact("index", frontier, keys)) =>
              \A key \in SelectedKeys(inner["index"], keys) :
                  LET before == DictGet(inner["index"], key, <<>>)
                      kept == {version \in RecordedVersions(inner["index"], key) :
                                  Antichain_less_equal_version(frontier, version)}
                  IN  /\ \A version \in RecordedVersions(inner'["index"], key) :
                            Antichain_less_equal_version(frontier, version)
                      /\ RecordedVersions(inner'["index"], key)
                             = kept \cup ReceivingVersions(before, frontier)
                      /\ \A version \in Versions, value \in Values :
                            NetMultiplicity(BagAt(inner'["index"], key, version), value)
                                = IF Antichain_less_equal_version(frontier, version)
                                  THEN NetMultiplicityInto(before, version,
                                                           frontier, value)
                                  ELSE 0]_vars

\* a compact that removed the two versions of a key, both below F, and left
\* the entry of each at its own advanced version
C15_Witness ==
    \E frontier \in Frontiers :
        /\ RightAfterCompact(frontier)
        /\ Len(added) = 2
        /\ added[1][1] = added[2][1]
        /\ ~Antichain_less_equal_version(frontier, added[1][2])
        /\ ~Antichain_less_equal_version(frontier, added[2][2])
        /\ Version_advance_by(added[1][2], frontier)
               # Version_advance_by(added[2][2], frontier)
        /\ RecordedVersions(inner["index"], added[1][1])
               = {Version_advance_by(added[1][2], frontier),
                  Version_advance_by(added[2][2], frontier)}
        /\ BagAt(inner["index"], added[1][1], Version_advance_by(added[1][2], frontier))
               = <<added[1][3]>>
        /\ BagAt(inner["index"], added[1][1], Version_advance_by(added[2][2], frontier))
               = <<added[2][3]>>

\* no frontier is installed in the index, or version is >= the installed one
FrontierAllowsVersion(self, version) ==
    \/ compaction_frontier[self] = None
    \/ \E f \in compaction_frontier[self][1] : Version_less_equal(f, version)

\* no frontier is installed in the index, or frontier is >= the installed one
FrontierAllowsFrontier(self, frontier) ==
    \/ compaction_frontier[self] = None
    \/ Antichain_less_equal(compaction_frontier[self][1], frontier)

\* C16: apart from stale-version and non-monotonic-frontier calls no operation
\* fails: append, join and versions always complete, and a call of add_value,
\* reconstruct_at or compact that does not complete was made with a version or
\* a frontier that is not >= the installed compaction frontier, for known and
\* unknown keys alike.
C16_OnlyFrontierChecksFail ==
    [][result'.status # "ok" =>
          /\ op'.name \in {"add_value", "reconstruct_at", "compact"}
          /\ \A self \in Indexes :
                /\ \A key \in Keys, version \in Versions :
                      /\ (op'.name = "reconstruct_at"
                             /\ reconstruct_at(self, key, version))
                            => ~FrontierAllowsVersion(self, version)
                      /\ \A value \in Entries :
                            (op'.name = "add_value"
                                /\ add_value(self, key, version, value))
                               => ~FrontierAllowsVersion(self, version)
                /\ \A frontier \in Frontiers, keys \in KeyLists :
                      (op'.name = "compact" /\ compact(self, frontier, keys))
                          => ~FrontierAllowsFrontier(self, frontier)]_vars

\* a reconstruct_at that completed with entries on an index that holds a
\* frontier, after an append and with a key in the map that was never written
C16_Witness ==
    /\ op = [name |-> "reconstruct_at", self |-> "other_index"]
    /\ result.status = "ok"
    /\ result.value # <<>>
    /\ compaction_frontier["other_index"] # None
    /\ calls.append = 1
    /\ DictHas(inner["other_index"], "key2")

\* C17 as claimed: the index records, for a key, only versions at which the
\* key has entries: in every reachable state every version that versions(k)
\* returns has a non-empty bag, also after a compact in which the entries
\* merged into a version cancel.
C17_RecordedVersionsHaveEntries ==
    \A key \in Keys :
        LET returned == versions_out(inner["index"], key)
        IN  \A i \in DOMAIN returned :
                BagAt(inner["index"], key, returned[i]) # <<>>

\* C18: a failing operation changes nothing: whenever add_value, reconstruct_at
\* or compact fails its frontier check, the key -> version -> bag map and the
\* installed compaction frontier are the same after the failed call as before
\* it; a rejected compact has moved and consolidated no entry.
C18_FailedCallChangesNothing ==
    [][(/\ result'.status # "ok"
        /\ op'.name \in {"add_value", "reconstruct_at", "compact"})
          => (inner' = inner /\ compaction_frontier' = compaction_frontier)]_vars

\* a compact that was rejected on an index that holds entries the rejected
\* frontier would have moved
C18_Witness ==
    /\ op.name = "compact"
    /\ result = AssertionError
    /\ compaction_frontier["index"] # None
    /\ \E frontier \in Frontiers, key \in Keys :
          /\ ~Antichain_less_equal(compaction_frontier["index"][1], frontier)
          /\ \E version \in RecordedVersions(inner["index"], key) :
                /\ ~Antichain_less_equal_version(frontier, version)
                /\ BagAt(inner["index"], key, version) # <<>>

\* index self holds no frontier, or every version recorded under every key of
\* it is >= its frontier
NoVersionBelowFrontier(self) ==
    compaction_frontier[self] # None =>
        \A key \in Keys :
            \A version \in RecordedVersions(inner[self], key) :
                Antichain_less_equal_version(compaction_frontier[self][1], version)

\* C19 as claimed: in every state reachable by add_value, append and compact,
\* whenever a compaction frontier F is installed in an index, every version
\* recorded under every key of the index is >= F.
C19_NoStoredVersionBelowFrontier ==
    \A self \in Indexes : NoVersionBelowFrontier(self)

\* C19 as amended: in every state of an index reached by add_value and compact
\* of all keys, with no append into the index, whenever a compaction frontier F
\* is installed every version recorded under every key is >= F.
C19_NoStoredVersionBelowFrontierWithoutAppend ==
    /\ NoVersionBelowFrontier("other_index")
    /\ calls.append = 0 => NoVersionBelowFrontier("index")

\* an add_value below the frontier that was rejected, on an index that holds a
\* frontier and entries that compaction advanced to it
C19_Witness ==
    /\ op = [name |-> "add_value", self |-> "other_index"]
    /\ result = AssertionError
    /\ compaction_frontier["other_index"] = Some({<<1, 1>>})
    /\ RecordedVersions(inner["other_index"], "key1") = {<<1, 1>>}
    /\ Len(BagAt(inner["other_index"], "key1", <<1, 1>>)) = 2

\* C20: join is read-only on both operands: X.join(Y) leaves the
\* key -> version -> bag maps, their sets of keys included, and the compaction
\* frontiers of X and Y unchanged, and it validates nothing, so it completes
\* also when an index holds a frontier.
C20_JoinIsReadOnly ==
    [][(op'.name = "join" /\ join("index", "other_index")) =>
          /\ inner' = inner
          /\ compaction_frontier' = compaction_frontier
          /\ result'.status = "ok"]_vars

\* a join that returned entries from two indexes that both hold a frontier,
\* one of them with a key the other does not hold
C20_Witness ==
    /\ op.name = "join"
    /\ result.status = "ok"
    /\ result.value # <<>>
    /\ \A self \in Indexes : compaction_frontier[self] # None
    /\ DictHas(inner["index"], "key2")
    /\ ~DictHas(inner["other_index"], "key2")

====
